---- MODULE Spec2Model ----
(***************************************************************************)
(* A model of src/main.rs of octree-experiment: the level-of-detail test   *)
(* can_subdivide on i32 coordinates, the per-frame system chain            *)
(* move_target -> update_octree -> render, and the octree they share.      *)
(*                                                                         *)
(* The octree container itself (OctreeI32, fill_tree_from_root,            *)
(* visit_tree_depth_first, iter_roots) is the grid_tree crate, which main.rs *)
(* only calls; those operators are modelled from the specification's       *)
(* sections 4.1, 4.3 and 4.4.                                              *)
(***************************************************************************)
EXTENDS Integers, Sequences, FiniteSets, TLC

VARIABLES
    target,     \* translation of the Target entity, one float per axis
    tree,       \* node keys held by the Octree resource
    pc,         \* the system of the chained frame that runs next
    shapes,     \* cuboids queued on DebugShapes during the frame
    dropped,    \* history: the frame's update_octree discarded a node of the old tree
    cs_self,    \* receiver of a direct can_subdivide call (the focus key)
    cs_node,    \* its node_key argument
    cs_detail,  \* its detail argument
    cs_result   \* "none" before the call, then "true", "false" or "panic"

vars == <<target, tree, pc, shapes, dropped, cs_self, cs_node, cs_detail, cs_result>>

(***************************************************************************)
(* Bounds of the model.                                                    *)
(***************************************************************************)
\* OCTREE_HEIGHT is 10 in main.rs; the model runs the same code on a
\* shallower tree so that every focus around the root cube can be enumerated.
OCTREE_HEIGHT == 3
\* direct calls: candidate coordinates in -MaxCoord .. MaxCoord, focus
\* coordinates in -1 .. MaxCoord, both with i32::MAX added
MaxCoord == 1
\* direct calls: levels in 0 .. MaxLevel
MaxLevel == 1
\* direct calls: detail in 0 .. MaxDetail and the three largest i32 values
MaxDetail == 1

DETAIL == 1

(***************************************************************************)
(* i32 arithmetic.  Every operator stays inside [I32_MIN, I32_MAX] at each *)
(* step, as the machine does.                                              *)
(***************************************************************************)
I32_MAX == 2147483647
I32_MIN == -I32_MAX - 1
I32_BITS == 32

RECURSIVE Pow2Rec(_)
Pow2Rec(k) == IF k = 0 THEN 1 ELSE 2 * Pow2Rec(k - 1)

\* the powers of two an i32 can hold
POW2 == [k \in 0..(I32_BITS - 2) |-> Pow2Rec(k)]
Pow2(k) == POW2[k]

\* a + b in two's complement (what `+` yields when overflow is not trapped)
wrapping_add(a, b) ==
    IF b > 0 /\ a > I32_MAX - b THEN (((a - I32_MAX) - 1) + b) - I32_MAX - 1
    ELSE IF b < 0 /\ a < I32_MIN - b THEN (((a + I32_MAX) + 1) + b) + I32_MAX + 1
    ELSE a + b

\* a - b in two's complement
wrapping_sub(a, b) ==
    IF b = I32_MIN THEN wrapping_add(wrapping_add(a, I32_MAX), 1)
    ELSE wrapping_add(a, -b)

add_overflows(a, b) == (b > 0 /\ a > I32_MAX - b) \/ (b < 0 /\ a < I32_MIN - b)

sub_overflows(a, b) == (b < 0 /\ a > I32_MAX + b) \/ (b > 0 /\ a < I32_MIN + b)

saturating_add(a, b) ==
    IF b > 0 /\ a > I32_MAX - b THEN I32_MAX
    ELSE IF b < 0 /\ a < I32_MIN - b THEN I32_MIN
    ELSE a + b

saturating_sub(a, b) ==
    IF b < 0 /\ a > I32_MAX + b THEN I32_MAX
    ELSE IF b > 0 /\ a < I32_MIN + b THEN I32_MIN
    ELSE a - b

\* x << k for 0 <= k < 32: the low 32 - k bits of x move up by k places, bit
\* 31 - k becomes the sign, and the k bits above it are dropped unchecked
shl_by(x, k) ==
    IF k = 0 THEN x
    ELSE IF k = I32_BITS - 1 THEN (IF x % 2 = 1 THEN I32_MIN ELSE 0)
    ELSE LET weight == Pow2(I32_BITS - 1 - k)
             low == x % weight
             sign == (x \div weight) % 2
         IN  IF sign = 1 THEN I32_MIN + low * Pow2(k) ELSE low * Pow2(k)

\* x << k on i32; a shift amount of 32 or more is masked to its low five
\* bits when it is not trapped
shl(x, k) == shl_by(x, k % I32_BITS)

\* the case in which `x << k` traps in a build with overflow checks
shl_overflows(k) == k >= I32_BITS

(***************************************************************************)
(* NodeKey<IVec3> and CanSubdivide::can_subdivide.                         *)
(***************************************************************************)
NodeKey(level, coordinates) == [level |-> level, coordinates |-> coordinates]

level_difference(self, node_key) == node_key.level - self.level

\* n << (level_difference + 1), the candidate's coordinate at twice the
\* focus's resolution
shifted(n, ld) == shl(n, ld + 1)

\* ((detail + 1) << level_difference) - (1 << level_difference)
margin_min(detail, ld) ==
    wrapping_sub(shl(wrapping_add(detail, 1), ld), shl(1, ld))

\* a slip: the margin of `min` pasted into `max`
margin_max_pasted(detail, ld) == margin_min(detail, ld)

\* ((detail + 1) << level_difference) + (1 << level_difference)
margin_max(detail, ld) ==
    wrapping_add(shl(wrapping_add(detail, 1), ld), shl(1, ld))

\* one component of `min`
box_min(n, detail, ld) == saturating_sub(shifted(n, ld), margin_min(detail, ld))

\* one component of `max`
box_max(n, detail, ld) == saturating_add(shifted(n, ld), margin_max(detail, ld))

\* one component of `local`
local(s) == shl(s, 1)

\* a slip: the lower bound compared strictly
in_box_strict(s, n, detail, ld) ==
    /\ local(s) > box_min(n, detail, ld)
    /\ local(s) < box_max(n, detail, ld)

\* a slip: the upper bound included
in_box_closed(s, n, detail, ld) ==
    /\ local(s) >= box_min(n, detail, ld)
    /\ local(s) <= box_max(n, detail, ld)

\* the comparison of one axis
in_box(s, n, detail, ld) ==
    /\ local(s) >= box_min(n, detail, ld)
    /\ local(s) < box_max(n, detail, ld)

\* the unchecked `+`, `-` and `<<` of the two margins trap in a build with
\* overflow checks when they overflow (the shifted-out bits of `<<` never do)
arithmetic_traps(detail, ld) ==
    \/ shl_overflows(ld + 1)
    \/ shl_overflows(ld)
    \/ add_overflows(detail, 1)
    \/ sub_overflows(shl(wrapping_add(detail, 1), ld), shl(1, ld))
    \/ add_overflows(shl(wrapping_add(detail, 1), ld), shl(1, ld))

can_subdivide(self, node_key, detail, checks) ==
    IF node_key.level < self.level THEN "false"
    ELSE LET ld == level_difference(self, node_key)
             s == self.coordinates
             n == node_key.coordinates
         IN  IF checks /\ arithmetic_traps(detail, ld) THEN "panic"
             ELSE IF \A i \in 1..3 : in_box(s[i], n[i], detail, ld)
                  THEN "true" ELSE "false"

(***************************************************************************)
(* Direct calls of can_subdivide on enumerated arguments.                  *)
(***************************************************************************)
FocusVals == ((-1)..MaxCoord) \cup {I32_MAX}
CandidateVals == ((-MaxCoord)..MaxCoord) \cup {I32_MAX}
Levels == 0..MaxLevel
DetailVals == (0..MaxDetail) \cup {I32_MAX - 2, I32_MAX - 1, I32_MAX}

IVec3s(S) == {<<x, y, z>> : x \in S, y \in S, z \in S}

InitDirect ==
    /\ cs_self \in {NodeKey(l, c) : l \in Levels, c \in IVec3s(FocusVals)}
    /\ cs_node \in {NodeKey(l, c) : l \in Levels, c \in IVec3s(CandidateVals)}
    /\ cs_detail \in DetailVals
    /\ cs_result = "none"
    /\ target = <<>>
    /\ tree = {}
    /\ pc = "direct_call"
    /\ shapes = <<>>
    /\ dropped = FALSE

\* one call; the build profile decides whether overflow traps
call_can_subdivide ==
    /\ pc = "direct_call"
    /\ cs_result = "none"
    /\ \E checks \in BOOLEAN :
          cs_result' = can_subdivide(cs_self, cs_node, cs_detail, checks)
    /\ UNCHANGED <<target, tree, pc, shapes, dropped, cs_self, cs_node, cs_detail>>

NextDirect == call_can_subdivide

SpecDirect == InitDirect /\ [][NextDirect]_vars

(***************************************************************************)
(* The octree container: the set of node keys it holds.  A child is linked *)
(* to the parent whose entry created it, so links follow the addresses.    *)
(***************************************************************************)
ZERO == <<0, 0, 0>>

\* OctreeI32::new(height): no node
OctreeI32_new(height) == {}

\* tree.root_level()
root_level == OCTREE_HEIGHT - 1

\* offset of the child with index i in 0..7
delinearize_child(i) == <<i % 2, (i \div 2) % 2, i \div 4>>

child_key(key, i) ==
    LET o == delinearize_child(i)
        c == key.coordinates
    IN  NodeKey(key.level - 1, <<2 * c[1] + o[1], 2 * c[2] + o[2], 2 * c[3] + o[3]>>)

child_keys(key) == {child_key(key, i) : i \in 0..7}

parent_key(key) ==
    LET c == key.coordinates
    IN  NodeKey(key.level + 1, <<c[1] \div 2, c[2] \div 2, c[3] \div 2>>)

RECURSIVE ancestor_key(_, _)
\* the ancestor of key at level l >= key.level
ancestor_key(key, l) ==
    IF key.level >= l THEN key ELSE ancestor_key(parent_key(key), l)

\* tree.iter_roots()
iter_roots(t) == {k \in t : k.level = root_level}

(***************************************************************************)
(* update_octree: the visitor it hands to fill_tree_from_root, and the     *)
(* fill itself.                                                            *)
(***************************************************************************)
\* a slip: the fill started one level below the root
root_key_below == NodeKey(root_level - 1, ZERO)

\* the key the fill starts from
root_key == NodeKey(root_level, ZERO)

\* a slip: the tree of the last frame kept
overwritten_tree_kept(old) == old

\* the tree the fill starts from: `tree.0 = OctreeI32::new(OCTREE_HEIGHT)`
overwritten_tree(old) == OctreeI32_new(OCTREE_HEIGHT)

\* the visitor's `match entry`: an occupied entry is left alone, a vacant one
\* is filled; TRUE when the node is present afterwards
filler_inserts(occupied) == TRUE

\* a slip: the visitor never prunes
filler_command_always(target_key, key, checks) == "Continue"

\* the visitor's result
filler_command(target_key, key, checks) ==
    IF can_subdivide(target_key, key, DETAIL, checks) = "true"
    THEN "Continue" ELSE "SkipDescendants"

\* the node of key k is present once the visitor has seen its entry
present_after_visit(t, k) == filler_inserts(k \in t) \/ k \in t

RECURSIVE fill_descendants(_, _, _, _, _)
\* parents: the nodes whose children are still to be visited
fill_descendants(t, parents, min_level, target_key, checks) ==
    IF parents = {} THEN t
    ELSE LET kids == UNION {child_keys(p) : p \in {q \in parents : q.level > 0}}
         IN  fill_descendants(
                 t \cup {k \in kids : present_after_visit(t, k)},
                 {k \in kids : /\ k.level > min_level
                               /\ filler_command(target_key, k, checks) = "Continue"
                               /\ present_after_visit(t, k)},
                 min_level, target_key, checks)

fill_tree_from_root(t, root, min_level, target_key, checks) ==
    IF present_after_visit(t, root)
    THEN IF filler_command(target_key, root, checks) = "Continue" /\ root.level > min_level
         THEN fill_descendants(t \cup {root}, {root}, min_level, target_key, checks)
         ELSE t \cup {root}
    ELSE t

(***************************************************************************)
(* The Target's translation.  A float is finite, counted in halves, or     *)
(* lies above the i32 range.                                               *)
(***************************************************************************)
Finite(h) == [range |-> "finite", halves |-> h]
Above == [range |-> "above", halves |-> 0]

root_length == Pow2(root_level)

\* whole positions from one cell before the root cube to one cell past it,
\* and -0.5
FiniteHalves == {2 * u : u \in (-1)..(root_length + 1)} \cup {-1}
TargetVals == {Finite(h) : h \in FiniteHalves} \cup {Above}

\* f32 as i32: truncation toward zero, saturating
as_i32(f) ==
    IF f.range = "above" THEN I32_MAX
    ELSE IF f.halves >= 0 THEN f.halves \div 2 ELSE -((-f.halves) \div 2)

as_ivec3(v) == <<as_i32(v[1]), as_i32(v[2]), as_i32(v[3])>>

\* NodeKey::new(0, target_pos.translation().as_ivec3())
target_key_of(v) == NodeKey(0, as_ivec3(v))

(***************************************************************************)
(* render: the cuboid drawn for a node, and the traversal.                 *)
(***************************************************************************)
\* a slip: the visitor prunes below every node
render_command_skip == "SkipDescendants"

\* the visitor's result
render_command == "Continue"

cuboid(key, root) ==
    LET scale_factor == Pow2(key.level)
        c == key.coordinates
        child_min == <<c[1] * scale_factor, c[2] * scale_factor, c[3] * scale_factor>>
    IN  [key |-> key,
         min |-> child_min,
         max |-> <<child_min[1] + scale_factor, child_min[2] + scale_factor,
                   child_min[3] + scale_factor>>,
         color |-> IF key.level = root.level THEN "ROOT_COLOR"
                   ELSE IF key.level = 0 THEN "LEAF_COLOR" ELSE "NODE_COLOR"]

RECURSIVE visit_tree_depth_first(_, _, _, _)
RECURSIVE visit_children(_, _, _, _, _)
\* pre-order: the node, then its existing children in index order
visit_tree_depth_first(t, key, min_level, root) ==
    <<cuboid(key, root)>> \o
        (IF render_command = "Continue" /\ key.level > min_level
         THEN visit_children(t, key, 0, min_level, root) ELSE <<>>)

visit_children(t, key, i, min_level, root) ==
    IF i > 7 THEN <<>>
    ELSE (IF child_key(key, i) \in t
          THEN visit_tree_depth_first(t, child_key(key, i), min_level, root)
          ELSE <<>>) \o visit_children(t, key, i + 1, min_level, root)

RECURSIVE render_roots(_, _)
\* for_each over iter_roots
render_roots(t, roots) ==
    IF roots = {} THEN <<>>
    ELSE LET r == CHOOSE k \in roots : TRUE
         IN  visit_tree_depth_first(t, r, 0, r) \o render_roots(t, roots \ {r})

(***************************************************************************)
(* The application: init, then the chained systems of every frame.         *)
(***************************************************************************)
Init ==
    /\ target = <<Finite(2 * (root_length \div 2)), Finite(2 * (root_length \div 2)),
                  Finite(0)>>
    /\ tree = OctreeI32_new(OCTREE_HEIGHT)
    /\ pc = "inspector"
    /\ shapes = <<>>
    /\ dropped = FALSE
    /\ cs_self = NodeKey(0, ZERO)
    /\ cs_node = NodeKey(0, ZERO)
    /\ cs_detail = DETAIL
    /\ cs_result = "none"

\* the values a free-fly edit of one field can take in the model
EditVals == {Above}

\* the world inspector runs once a frame; the user may have typed a value
\* into one field of the Target's Transform
world_inspector ==
    /\ pc = "inspector"
    /\ \/ \E i \in 1..3, f \in EditVals : target' = [target EXCEPT ![i] = f]
       \/ UNCHANGED target
    /\ pc' = "move_target"
    /\ UNCHANGED <<tree, shapes, dropped, cs_self, cs_node, cs_detail, cs_result>>

\* one step of the orbit around the centre of the root cube: an axis moves
\* by at most one cell; a translation beyond the i32 range stays there
orbit_steps(f) ==
    IF f.range = "above" THEN {f}
    ELSE {Finite(h) : h \in {g \in FiniteHalves : g - f.halves \in -2..2}}

move_target ==
    /\ pc = "move_target"
    /\ \E x \in orbit_steps(target[1]), y \in orbit_steps(target[2]),
          z \in orbit_steps(target[3]) : target' = <<x, y, z>>
    /\ pc' = "update_octree"
    /\ UNCHANGED <<tree, shapes, dropped, cs_self, cs_node, cs_detail, cs_result>>

\* the build profiles that can behave differently in update_octree: overflow
\* checks matter only if some level of the tree makes the margins overflow
profiles ==
    IF \E ld \in 0..root_level : arithmetic_traps(DETAIL, ld) THEN BOOLEAN ELSE {FALSE}

update_octree ==
    /\ pc = "update_octree"
    /\ \E checks \in profiles :
          LET target_key == target_key_of(target)
          IN  \E built \in {fill_tree_from_root(overwritten_tree(tree), root_key, 0,
                                                target_key, checks)} :
                 /\ tree' = built
                 /\ dropped' = (\E n \in tree : n \notin built)
                 /\ pc' = IF checks /\ \E k \in built :
                                 can_subdivide(target_key, k, DETAIL, checks) = "panic"
                          THEN "panicked" ELSE "render"
    /\ UNCHANGED <<target, shapes, cs_self, cs_node, cs_detail, cs_result>>

render ==
    /\ pc = "render"
    /\ shapes' = shapes \o render_roots(tree, iter_roots(tree))
    /\ pc' = "draw"
    /\ UNCHANGED <<target, tree, dropped, cs_self, cs_node, cs_detail, cs_result>>

\* the debug-lines plugin draws the queued shapes and drops them
draw_shapes ==
    /\ pc = "draw"
    /\ shapes' = <<>>
    /\ dropped' = FALSE
    /\ pc' = "inspector"
    /\ UNCHANGED <<target, tree, cs_self, cs_node, cs_detail, cs_result>>

Next ==
    \/ world_inspector
    \/ move_target
    \/ update_octree
    \/ render
    \/ draw_shapes

Spec == Init /\ [][Next]_vars

(***************************************************************************)
(* Properties of the tree that update_octree builds.                       *)
(***************************************************************************)
\* the focus of the frame
focus == target_key_of(target)

\* update_octree has just built the tree for the focus
Built == pc = "render"

\* the proper ancestors of a key up to the root level
ancestors(key) == {ancestor_key(key, l) : l \in (key.level + 1)..root_level}

\* C1: every node below the root level has its parent in the tree (no orphan
\* node), for every focus.
C1_NoOrphanNode ==
    Built => \A n \in tree : n.level < root_level => parent_key(n) \in tree

\* a build that went down to level 0, two levels below the root
C1_Witness ==
    /\ Built
    /\ \E n \in tree : n.level = 0 /\ parent_key(n).level < root_level

\* C2: no node of the tree lies below a node at which can_subdivide is false,
\* and no node lies below level 0.
C2_PrunedBelowSkip ==
    Built =>
        /\ \A n \in tree : n.level \in 0..root_level
        /\ \A a \in UNION {ancestors(n) : n \in tree} :
              can_subdivide(focus, a, DETAIL, FALSE) = "true"

\* a build that pruned one node above level 0 and refined another down to it
C2_Witness ==
    /\ Built
    /\ \E a \in tree : a.level > 0 /\ can_subdivide(focus, a, DETAIL, FALSE) = "false"
    /\ \E n \in tree : n.level = 0 /\ can_subdivide(focus, n, DETAIL, FALSE) = "true"

\* the focus lies in the root cube [0, 2^(height-1))^3
InRootCube(key) == \A i \in 1..3 : key.coordinates[i] \in 0..(root_length - 1)

\* the cell of level l that holds the focus
focus_cell(l) ==
    LET c == focus.coordinates
    IN  NodeKey(l, <<c[1] \div Pow2(l), c[2] \div Pow2(l), c[3] \div Pow2(l)>>)

C6_LeavesNearFocus ==
    Built =>
        \A n \in tree :
            n.level = 0 =>
                \A i \in 1..3 :
                    /\ n.coordinates[i] >= saturating_sub(focus.coordinates[i], DETAIL + 1)
                    /\ n.coordinates[i] <= saturating_add(focus.coordinates[i], DETAIL + 1)

\* the same bound for the foci whose doubling `s << 1` loses no bit
LeavesNearUnwrappedFocus ==
    (\A i \in 1..3 : local(focus.coordinates[i]) \div 2 = focus.coordinates[i])
        => C6_LeavesNearFocus

\* C8: after update_octree the tree is the one a build on a fresh tree gives
\* for the frame's focus, whatever the earlier frames left.
C8_RebuiltFromScratch ==
    Built => tree = fill_tree_from_root(OctreeI32_new(OCTREE_HEIGHT), root_key, 0,
                                        focus, FALSE)

\* a rebuild that discarded a node of the previous frame and built a tree
\* down to level 0
C8_Witness ==
    /\ Built
    /\ dropped
    /\ \E n \in tree : n.level = 0

(***************************************************************************)
(* Properties of render.                                                   *)
(***************************************************************************)
\* the nodes linked to root r by a chain of nodes of t
reachable_from(t, r) ==
    {k \in t : /\ k.level <= r.level
               /\ \A l \in k.level..r.level : ancestor_key(k, l) \in t
               /\ ancestor_key(k, r.level) = r}

drawn_keys(q) == {q[i].key : i \in 1..Len(q)}

\* C7: render draws every node reachable from a populated root exactly once,
\* draws nothing that is absent, and leaves the tree as it was.
C7_RenderVisitsReachableOnce ==
    [][pc = "render" =>
          /\ tree' = tree
          /\ drawn_keys(shapes') = UNION {reachable_from(tree, r) : r \in iter_roots(tree)}
          /\ Len(shapes') = Cardinality(drawn_keys(shapes'))
          /\ drawn_keys(shapes') \subseteq tree]_vars

\* render has drawn a tree of three levels
C7_Witness ==
    /\ pc = "draw"
    /\ \E i \in 1..Len(shapes) : shapes[i].key.level = 0
    /\ \E i \in 1..Len(shapes) : shapes[i].key.level = root_level
    /\ Len(shapes) > 9

(***************************************************************************)
(* Properties of can_subdivide, on the direct calls.                       *)
(***************************************************************************)
Called == cs_result # "none"

cs_ld == level_difference(cs_self, cs_node)

C5_MonotoneInDetail ==
    Called =>
        \A d1 \in DetailVals, checks \in BOOLEAN :
            (d1 <= cs_detail /\ can_subdivide(cs_self, cs_node, d1, checks) = "true")
                => cs_result = "true"

\* the exact product x * 2^k, clamped to the i32 range
clamped_product(x, k) ==
    IF x > I32_MAX \div Pow2(k) THEN I32_MAX
    ELSE IF x < I32_MIN \div Pow2(k) THEN I32_MIN
    ELSE x * Pow2(k)

\* the exact value (2 * (n + half) + odd) * 2^k, clamped to the i32 range
clamped_bound(n, half, odd, k) ==
    IF add_overflows(n, half) THEN (IF half > 0 THEN I32_MAX ELSE I32_MIN)
    ELSE IF n + half > I32_MAX \div Pow2(k + 1) THEN I32_MAX
    ELSE IF n + half < I32_MIN \div Pow2(k + 1) THEN I32_MIN
    ELSE saturating_add((n + half) * Pow2(k + 1), odd * Pow2(k))

\* detail * 2^k, (detail + 2) * 2^k and the two box bounds, exact and clamped
exact_margin_min(detail, k) == clamped_product(detail, k)
exact_margin_max(detail, k) ==
    IF detail > I32_MAX - 2 THEN I32_MAX ELSE clamped_product(detail + 2, k)
exact_box_min(n, detail, k) == clamped_bound(n, -((detail + 1) \div 2), detail % 2, k)
exact_box_max(n, detail, k) == clamped_bound(n, (detail \div 2) + 1, detail % 2, k)

\* C10 as claimed: every intermediate value of the call is its exact value
\* clamped to [-2^31, 2^31 - 1].
C10_EveryStepSaturates ==
    (Called /\ cs_ld >= 0) =>
        /\ margin_min(cs_detail, cs_ld) = exact_margin_min(cs_detail, cs_ld)
        /\ margin_max(cs_detail, cs_ld) = exact_margin_max(cs_detail, cs_ld)
        /\ \A i \in 1..3 :
              LET s == cs_self.coordinates[i]
                  n == cs_node.coordinates[i]
              IN  /\ shifted(n, cs_ld) = clamped_product(n, cs_ld + 1)
                  /\ local(s) = clamped_product(s, 1)
                  /\ box_min(n, cs_detail, cs_ld) = exact_box_min(n, cs_detail, cs_ld)
                  /\ box_max(n, cs_detail, cs_ld) = exact_box_max(n, cs_detail, cs_ld)

\* none of the values the claim names leaves the i32 range
NoOverflow(s, n, detail, k) ==
    /\ clamped_product(s, 1) \notin {I32_MIN, I32_MAX}
    /\ clamped_product(n, k + 1) \notin {I32_MIN, I32_MAX}
    /\ exact_margin_max(detail, k) # I32_MAX
    /\ ~sub_overflows(n * Pow2(k + 1), detail * Pow2(k))
    /\ ~add_overflows(n * Pow2(k + 1), (detail + 2) * Pow2(k))

CallFits == \A i \in 1..3 :
    NoOverflow(cs_self.coordinates[i], cs_node.coordinates[i], cs_detail, cs_ld)

\* the focus's doubled coordinate against the exact box, open or closed below
strictly_inside(s, n, detail, k) ==
    /\ n * Pow2(k + 1) - detail * Pow2(k) < 2 * s
    /\ 2 * s < n * Pow2(k + 1) + (detail + 2) * Pow2(k)

inside(s, n, detail, k) ==
    /\ n * Pow2(k + 1) - detail * Pow2(k) <= 2 * s
    /\ 2 * s < n * Pow2(k + 1) + (detail + 2) * Pow2(k)

\* C9 as claimed: true iff the doubled focus lies strictly between min and
\* max on every axis.
C9_TrueIffStrictlyInside ==
    (Called /\ cs_ld >= 0 /\ CallFits) =>
        (cs_result = "true" <=>
            \A i \in 1..3 : strictly_inside(cs_self.coordinates[i],
                                            cs_node.coordinates[i], cs_detail, cs_ld))

\* C9, amended: while no value overflows i32 the call returns true iff
\* min <= 2 * focus.coord < max on every axis, and false otherwise.
C9_TrueIffInside ==
    (Called /\ cs_ld >= 0 /\ CallFits) =>
        /\ cs_result \in {"true", "false"}
        /\ cs_result = "true" <=>
              \A i \in 1..3 : inside(cs_self.coordinates[i],
                                     cs_node.coordinates[i], cs_detail, cs_ld)

\* a call one level above the focus that is allowed with the doubled focus
\* exactly on min
C9_Witness ==
    /\ cs_result = "true"
    /\ cs_ld = 1
    /\ CallFits
    /\ \E i \in 1..3 :
          2 * cs_self.coordinates[i]
              = cs_node.coordinates[i] * Pow2(cs_ld + 1) - cs_detail * Pow2(cs_ld)
====
